---- MODULE Spec2Model ----
(***************************************************************************)
(* Stark-Jr v0.5 (stark-jr.v0.5.py): the voice loop's two concurrent       *)
(* cores.                                                                  *)
(*   - JarvisMouth: the job queue, its consumer thread (_worker and        *)
(*     _play_chunked), and the callers of speak / wait / stop_talking      *)
(*     (main's turn loop and its KeyboardInterrupt handlers).              *)
(*   - JarvisEars.listen: the capture loop over the frames the audio       *)
(*     callback queues.                                                    *)
(* and two of its sequential parts, each followed on its own input:        *)
(*   - main()'s segmenter of the chat stream (with speak and _clean);      *)
(*   - _play_chunked's conversion, volume and padding of one buffer.       *)
(* Every step of a thread that reads or writes state shared with another   *)
(* thread (self.active, self.queue) is one action.                         *)
(***************************************************************************)
EXTENDS Integers, Sequences, FiniteSets

\* ------------------------------------------------------------- bounds
\* PlaybackJobs enqueued in one run (job ids are 1..MaxJobs, in enqueue order).
MaxJobs == 2
\* Calls of stop_talking in one run.
MaxInterrupts == 2
\* Jobs whose playback raises in one run.
MaxFaults == 1

\* Frames the audio callback delivers during one listen().
MaxFrames == 5
\* Seconds the clock runs during one listen().
MaxTime == 3
\* Frames waiting on q that were delivered together with a status.
MaxStatus == 1

\* Characters of a chat response whose deltas are not scripted.
MaxText == 5

\* Samples of a synthesized buffer whose values are followed.
MaxSamples == 2

\* ---------------------------------------------------- program constants
\* Config.CHUNK_SIZE, samples per write to the output device.
CHUNK_SIZE == 2048
\* Config.THRESHOLD = 0.03, in hundredths of full scale (samples are in the
\* same unit).
THRESHOLD == 3
\* Config.SILENCE_LIMIT = 2.0, in seconds.
SILENCE_LIMIT == 2
\* Config.VOLUME = 0.8: volumes are in hundredths, 0.0 to 1.0 is 0..VolumeUnit.
VolumeUnit == 100
VOLUME == 80
\* The divisor of line 176, and the values of np.int16 (line 175).
FullScale == 32768
Int16Min == -32768
Int16Max == 32767

Jobs == 1..MaxJobs
NoJob == 0
\* No buffer in the write loop.
Nothing == [job |-> NoJob, last |-> 0]

\* Python's None, for silence_start and for what transcribe was given.
None == -1

\* main()'s thread, and a second thread calling stop_talking (SpecOverlap only).
Callers == {"main", "aux"}

\* The chunks piper.synthesize may yield for one sentence, as sample counts:
\* nothing, a buffer shorter than one sub-chunk, one of exactly one sub-chunk,
\* and one needing two writes.
SynthOutputs == {<< >>, <<1>>, <<CHUNK_SIZE>>, <<CHUNK_SIZE, 1>>}

VARIABLES
    \* ---- JarvisMouth
    jobq,         \* self.queue.queue: the pending jobs, oldest first
    unfinished,   \* self.queue.unfinished_tasks: put() adds 1, task_done() takes 1
    active,       \* self.active
    piper,        \* self.piper is not None
    wpc,          \* the consumer thread's position in _worker / _play_chunked
    cur,          \* _worker's local text: the job it popped (NoJob: none)
    stream,       \* _play_chunked's stream: the synthesis chunks not yet taken
    alen,         \* len(audio_buffer), later len(audio_float32), in samples
    pos,          \* the write loop's i
    written,      \* the writes the open OutputStream has received, in order
    outcome,      \* how the consumer's work on cur ended ("none": not yet)
    \* ---- the callers
    mpc,          \* main()'s position in its turn loop
    spc,          \* per caller: its position inside stop_talking
    nextJob,      \* the id the next enqueued job gets
    ncalls,       \* calls of stop_talking begun so far
    nfaults,      \* jobs whose playback has raised so far
    \* ---- history, for the properties; only of jobs not yet finished
    doomed,       \* jobs enqueued and not yet begun when a stop_talking began
    target,       \* per caller: what was in the write loop when its stop_talking began
    cut,          \* the targets of the calls of stop_talking that have returned
    prevWritten,  \* the latest finished job the device received a write of (NoJob: none)
    sigMark,      \* jobs with id <= sigMark were enqueued before the latest interrupt signal or clear()
    waitMark,     \* jobs with id >= waitMark were enqueued after a wait() returned (0: none yet)
    \* ---- JarvisEars.listen
    frames,       \* the frames the callback has put on q, in arrival order
    flagged,      \* which of those not yet taken from q came with a status (by position)
    nread,        \* how many of them the loop has taken from q
    now,          \* time.time(), in seconds
    audio_data,   \* the utterance buffer
    silence_start,    \* None, or the time silence began
    speaking_started,
    epc,          \* the position of listen(): in its loop, past the break, returned
    transcribed,  \* what was handed to model.transcribe (None: nothing)
    \* ---- main(): the response segmenter
    segpc,        \* its position: before the chat call, in the stream loop, past it
    script,       \* the deltas the stream will still yield, when they are fixed
    free,         \* the stream may yield any delta next (no fixed script)
    fed,          \* every delta so far, concatenated
    sbuf,         \* main()'s local buffer
    units,        \* the texts handed to mouth.speak, in call order
    queued,       \* the texts speak has put on the queue, in order
    nstreamed,    \* how many units were handed over before the stream ended
    lastEmit,     \* how many units the latest delta completed
    \* ---- _play_chunked: the samples of one short buffer
    dpc,          \* how far lines 175-192 have got with it
    volume,       \* Config.VOLUME
    audio_int16,  \* the samples synthesis produced
    audio_float32,    \* the converted samples, each a fraction [num, den]
    device        \* the chunk handed to s.write: the samples and the zeros after them

mouthVars ==
    <<jobq, unfinished, active, piper, wpc, cur, stream, alen, pos, written, outcome>>
callerVars == <<mpc, spc, nextJob, ncalls, nfaults>>
histVars == <<doomed, target, cut, prevWritten, sigMark, waitMark>>
earVars ==
    <<frames, flagged, nread, now, audio_data, silence_start, speaking_started, epc, transcribed>>
segVars == <<segpc, script, free, fed, sbuf, units, queued, nstreamed, lastEmit>>
dspVars == <<dpc, volume, audio_int16, audio_float32, device>>
pureVars == <<segVars, dspVars>>
vars == <<mouthVars, callerVars, histVars, earVars, pureVars>>

Range(s) == {s[k] : k \in 1..Len(s)}

Min(a, b) == IF a < b THEN a ELSE b

\* ------------------------------------------------------------ Init
\* JarvisMouth.__init__: an empty queue, active, piper loaded or not (the load
\* may fail and is caught), the consumer thread started at the top of its loop.
\* main() is about to call ears.listen().
\* listen, lines 46 and 53-56: an empty q, the input stream open, no audio, no
\* silence, not speaking.
\* The segmenter and the buffer conversion have not begun; VOLUME is as
\* configured.
Init ==
    /\ jobq = << >>
    /\ unfinished = 0
    /\ active = TRUE
    /\ piper \in BOOLEAN
    /\ wpc = "get"
    /\ cur = NoJob
    /\ stream = << >>
    /\ alen = 0
    /\ pos = 0
    /\ written = << >>
    /\ outcome = "none"
    /\ mpc = "listen"
    /\ spc = [t \in Callers |-> "idle"]
    /\ nextJob = 1
    /\ ncalls = 0
    /\ nfaults = 0
    /\ doomed = {}
    /\ target = [t \in Callers |-> Nothing]
    /\ cut = {}
    /\ prevWritten = NoJob
    /\ sigMark = 0
    /\ waitMark = 0
    /\ frames = << >>
    /\ flagged = {}
    /\ nread = 0
    /\ now = 0
    /\ audio_data = << >>
    /\ silence_start = None
    /\ speaking_started = FALSE
    /\ epc = "loop"
    /\ transcribed = None
    /\ segpc = "idle"
    /\ script = << >>
    /\ free = FALSE
    /\ fed = << >>
    /\ sbuf = << >>
    /\ units = << >>
    /\ queued = << >>
    /\ nstreamed = 0
    /\ lastEmit = 0
    /\ dpc = "idle"
    /\ volume = VOLUME
    /\ audio_int16 = << >>
    /\ audio_float32 = << >>
    /\ device = [data |-> << >>, zeros |-> 0]

\* The process is running: main() has not left its loop (the consumer is a
\* daemon thread and ends with it).
Running == mpc # "exit"

\* ------------------------------------------------- the consumer thread
\* queue.get: the job a get() returns and the queue it leaves (FIFO).
QueueGetLifo(q) == [job |-> q[Len(q)], rest |-> SubSeq(q, 1, Len(q) - 1)]
QueueGet(q) == [job |-> Head(q), rest |-> Tail(q)]

\* _worker, line 147: get() pops the oldest job.
WorkerGet ==
    /\ Running
    /\ wpc = "get"
    /\ jobq # << >>
    /\ cur' = QueueGet(jobq).job
    /\ jobq' = QueueGet(jobq).rest
    /\ wpc' = "test"
    /\ UNCHANGED <<unfinished, active, piper, stream, alen, pos, written, outcome>>
    /\ UNCHANGED <<callerVars, histVars>>
    /\ UNCHANGED <<earVars, pureVars>>

\* _worker, lines 147, 153-154: get() times out on an empty queue and the loop
\* goes round (stop_event is never set).
WorkerTimeout ==
    /\ Running
    /\ wpc = "get"
    /\ jobq = << >>
    /\ UNCHANGED vars

\* _worker, line 148: `if self.active and self.piper` reads active once.
WorkerTest ==
    /\ Running
    /\ wpc = "test"
    /\ wpc' = IF active /\ piper THEN "synth" ELSE "test2"
    /\ UNCHANGED <<jobq, unfinished, active, piper, cur, stream, alen, pos, written, outcome>>
    /\ UNCHANGED <<callerVars, histVars>>
    /\ UNCHANGED <<earVars, pureVars>>

\* _worker, lines 150-151: `elif self.active` reads active again; when it
\* holds the text is printed instead of spoken.
WorkerFallback ==
    /\ Running
    /\ wpc = "test2"
    /\ outcome' = IF active THEN "printed" ELSE "skipped"
    /\ wpc' = "task_done"
    /\ UNCHANGED <<jobq, unfinished, active, piper, cur, stream, alen, pos, written>>
    /\ UNCHANGED <<callerVars, histVars>>
    /\ UNCHANGED <<earVars, pureVars>>

\* _play_chunked, lines 164-165: the text is handed to piper.synthesize, which
\* answers with a stream of chunks; audio_buffer starts empty.
PlaySynthesize ==
    /\ Running
    /\ wpc = "synth"
    /\ \E out \in SynthOutputs : stream' = out
    /\ alen' = 0
    /\ wpc' = "collect"
    /\ UNCHANGED <<jobq, unfinished, active, piper, cur, pos, written, outcome>>
    /\ UNCHANGED <<callerVars, histVars>>
    /\ UNCHANGED <<earVars, pureVars>>

\* _play_chunked, lines 168-170: the next chunk of the stream; return when the
\* engine is not active, else append the chunk to audio_buffer.
PlayCollect ==
    /\ Running
    /\ wpc = "collect"
    /\ stream # << >>
    /\ IF active
         THEN /\ alen' = alen + Head(stream)
              /\ stream' = Tail(stream)
              /\ UNCHANGED <<wpc, outcome>>
         ELSE /\ wpc' = "task_done"
              /\ outcome' = "aborted"
              /\ UNCHANGED <<alen, stream>>
    /\ UNCHANGED <<jobq, unfinished, active, piper, cur, pos, written>>
    /\ UNCHANGED <<callerVars, histVars>>
    /\ UNCHANGED <<earVars, pureVars>>

\* _play_chunked, lines 172-182: the stream is exhausted; return on an empty
\* buffer or an inactive engine, else convert the buffer, open the output
\* stream and enter the write loop with i = 0.
PlayOpen ==
    /\ Running
    /\ wpc = "collect"
    /\ stream = << >>
    /\ IF alen = 0 \/ ~active
         THEN /\ wpc' = "task_done"
              /\ outcome' = IF alen = 0 THEN "empty" ELSE "aborted"
         ELSE /\ wpc' = "loop"
              /\ outcome' = outcome
    /\ pos' = 0
    /\ UNCHANGED <<jobq, unfinished, active, piper, cur, stream, alen, written>>
    /\ UNCHANGED <<callerVars, histVars>>
    /\ UNCHANGED <<earVars, pureVars>>

\* The test that precedes each write (line 183): the loop goes on only while
\* the engine is active.
MayWrite(a) == a

\* _play_chunked, lines 182-184: the loop's range test, then `if not
\* self.active: break`; the with block closes the stream when the loop ends.
PlayLoop ==
    /\ Running
    /\ wpc = "loop"
    /\ IF pos >= alen
         THEN wpc' = "task_done" /\ outcome' = "played"
         ELSE IF MayWrite(active)
                THEN wpc' = "write" /\ outcome' = outcome
                ELSE wpc' = "task_done" /\ outcome' = "aborted"
    /\ UNCHANGED <<jobq, unfinished, active, piper, cur, stream, alen, pos, written>>
    /\ UNCHANGED <<callerVars, histVars>>
    /\ UNCHANGED <<earVars, pureVars>>

\* lines 189-190: the zeros np.pad puts after a chunk of n samples.
PadNone(n) == 0
Pad(n) == IF n < CHUNK_SIZE THEN CHUNK_SIZE - n ELSE 0

\* One write to the device: the job, the offset of the sub-chunk in the
\* buffer, the samples of the buffer in it (line 187: the slice
\* audio_float32[i : i + CHUNK_SIZE]), and the samples written (lines 189-190:
\* the slice with its padding).
SubChunk(job, i, len) ==
    LET real == Min(CHUNK_SIZE, len - i)
    IN  [job |-> job, off |-> i, real |-> real, size |-> real + Pad(real)]

\* _play_chunked, lines 187-192: the blocking s.write of one sub-chunk.
PlayWrite ==
    /\ Running
    /\ wpc = "write"
    /\ written' = Append(written, SubChunk(cur, pos, alen))
    /\ pos' = pos + CHUNK_SIZE
    /\ wpc' = "loop"
    /\ UNCHANGED <<jobq, unfinished, active, piper, cur, stream, alen, outcome>>
    /\ UNCHANGED <<callerVars, histVars>>
    /\ UNCHANGED <<earVars, pureVars>>

\* Where the consumer goes on after a fault raised at pc inside _play_chunked:
\* the except clause of line 194 ends the call, so _worker is at its line 152
\* (an exception that left _play_chunked would be caught at line 155, past
\* task_done, and the loop would go round).
AfterFaultUncaught(pc) == "get"
AfterFault(pc) == "task_done"

\* _play_chunked, lines 163, 194-195: synthesis, the conversion, opening the
\* device or a write raises; the except clause logs it and _play_chunked
\* returns to _worker.
PlayFault ==
    /\ Running
    /\ wpc \in {"synth", "collect", "loop", "write"}
    /\ nfaults < MaxFaults
    /\ nfaults' = nfaults + 1
    /\ outcome' = "fault"
    /\ wpc' = AfterFault(wpc)
    /\ UNCHANGED <<jobq, unfinished, active, piper, cur, stream, alen, pos, written>>
    /\ UNCHANGED <<mpc, spc, nextJob, ncalls, histVars>>
    /\ UNCHANGED <<earVars, pureVars>>

\* _worker, line 152: task_done() takes 1 from unfinished_tasks (it raises
\* ValueError, caught at line 155, when there is none left), and the loop
\* goes round; _play_chunked's locals and its closed stream are gone.
WorkerTaskDone ==
    /\ Running
    /\ wpc = "task_done"
    /\ unfinished' = IF unfinished > 0 THEN unfinished - 1 ELSE unfinished
    /\ cur' = NoJob
    /\ stream' = << >>
    /\ alen' = 0
    /\ pos' = 0
    /\ written' = << >>
    /\ outcome' = "none"
    /\ wpc' = "get"
    /\ prevWritten' = IF written # << >> THEN cur ELSE prevWritten
    /\ doomed' = doomed \ {cur}
    /\ cut' = {c \in cut : c.job # cur}
    /\ UNCHANGED <<jobq, active, piper, callerVars, target, sigMark, waitMark>>
    /\ UNCHANGED <<earVars, pureVars>>

Worker ==
    \/ WorkerGet
    \/ WorkerTimeout
    \/ WorkerTest
    \/ WorkerFallback
    \/ PlaySynthesize
    \/ PlayCollect
    \/ PlayOpen
    \/ PlayLoop
    \/ PlayWrite
    \/ PlayFault
    \/ WorkerTaskDone

\* ------------------------------------------------------ stop_talking
\* The jobs that are enqueued and that the consumer has not begun to process:
\* those in the queue, and the one it has popped and not yet tested active for
\* (line 147 done, line 148 not yet).
Pending == Range(jobq) \cup (IF wpc = "test" THEN {cur} ELSE {})

\* The buffer the consumer is writing, with the offset of the last sub-chunk
\* whose write is done or in progress (Nothing: not in the write loop).
Writing ==
    IF wpc = "write" THEN [job |-> cur, last |-> pos]
    ELSE IF wpc = "loop" THEN [job |-> cur, last |-> pos - CHUNK_SIZE]
    ELSE Nothing

\* stop_talking, line 124: self.active = False.
StopBegin(t) ==
    /\ spc[t] = "idle"
    /\ ncalls < MaxInterrupts
    /\ ncalls' = ncalls + 1
    /\ active' = FALSE
    /\ spc' = [spc EXCEPT ![t] = "clear"]
    /\ doomed' = doomed \cup Pending
    /\ target' = [target EXCEPT ![t] = Writing]
    /\ sigMark' = nextJob - 1
    /\ UNCHANGED <<jobq, unfinished, piper, wpc, cur, stream, alen, pos, written, outcome>>
    /\ UNCHANGED <<nextJob, nfaults, cut, prevWritten, waitMark>>
    /\ UNCHANGED <<earVars, pureVars>>

\* What queue.queue.clear() leaves of the queue.
Cleared(q) == << >>

\* stop_talking, lines 125-126: under the queue's mutex, queue.queue.clear();
\* unfinished_tasks is not touched.
StopClear(t) ==
    /\ spc[t] = "clear"
    /\ jobq' = Cleared(jobq)
    /\ spc' = [spc EXCEPT ![t] = "sleep"]
    /\ doomed' = doomed \cap (Range(jobq') \cup {cur})
    /\ sigMark' = nextJob - 1
    /\ UNCHANGED <<unfinished, active, piper, wpc, cur, stream, alen, pos, written, outcome>>
    /\ UNCHANGED <<mpc, nextJob, ncalls, nfaults, target, cut, prevWritten, waitMark>>
    /\ UNCHANGED <<earVars, pureVars>>

\* The value stop_talking leaves in self.active.
ReactivatedToggle(a) == ~a
ReactivatedNever(a) == a
Reactivated(a) == TRUE

\* stop_talking, lines 128-129: the sleep of 0.05 s is over, self.active =
\* True, and the call returns (main goes on in its handler, line 268).
StopEnd(t) ==
    /\ spc[t] = "sleep"
    /\ active' = Reactivated(active)
    /\ spc' = [spc EXCEPT ![t] = "idle"]
    /\ mpc' = IF t = "main" THEN "cooldown" ELSE mpc
    /\ cut' = cut \cup (IF target[t].job = cur /\ cur # NoJob THEN {target[t]} ELSE {})
    /\ target' = [target EXCEPT ![t] = Nothing]
    /\ UNCHANGED <<jobq, unfinished, piper, wpc, cur, stream, alen, pos, written, outcome>>
    /\ UNCHANGED <<nextJob, ncalls, nfaults, doomed, prevWritten, sigMark, waitMark>>
    /\ UNCHANGED <<earVars, pureVars>>

\* ------------------------------------------------------------ main()
\* main, lines 233-236: ears.listen() returned a text and a turn begins (when
\* it returns None the loop goes round: nothing changes).
MainListen ==
    /\ mpc = "listen"
    /\ mpc' = "stream"
    /\ UNCHANGED <<mouthVars, spc, nextJob, ncalls, nfaults, histVars>>
    /\ UNCHANGED <<earVars, pureVars>>

\* main, lines 257 and 261, speak, lines 131-134: a sentence whose cleaned text
\* is not empty is put on the queue; put() adds 1 to unfinished_tasks.
MainSpeak ==
    /\ mpc = "stream"
    /\ nextJob <= MaxJobs
    /\ jobq' = Append(jobq, nextJob)
    /\ unfinished' = unfinished + 1
    /\ nextJob' = nextJob + 1
    /\ UNCHANGED <<active, piper, wpc, cur, stream, alen, pos, written, outcome>>
    /\ UNCHANGED <<mpc, spc, ncalls, nfaults, histVars>>
    /\ UNCHANGED <<earVars, pureVars>>

\* main, lines 249-263: the chat stream has ended and main calls mouth.wait().
MainStreamEnd ==
    /\ mpc = "stream"
    /\ mpc' = "wait"
    /\ UNCHANGED <<mouthVars, spc, nextJob, ncalls, nfaults, histVars>>
    /\ UNCHANGED <<earVars, pureVars>>

\* queue.join(): it returns when unfinished_tasks is 0.
JoinReadyWhenEmpty == jobq = << >>
JoinReady == unfinished = 0

\* wait, lines 136-137: queue.join() returns; main is at line 264.
MainWaitReturn ==
    /\ mpc = "wait"
    /\ JoinReady
    /\ mpc' = "turn_done"
    /\ waitMark' = IF waitMark = 0 THEN nextJob ELSE waitMark
    /\ UNCHANGED <<mouthVars, spc, nextJob, ncalls, nfaults>>
    /\ UNCHANGED <<doomed, target, cut, prevWritten, sigMark>>
    /\ UNCHANGED <<earVars, pureVars>>

\* main, line 264 and back to line 231: the turn is over.
MainTurnDone ==
    /\ mpc = "turn_done"
    /\ mpc' = "listen"
    /\ UNCHANGED <<mouthVars, spc, nextJob, ncalls, nfaults, histVars>>
    /\ UNCHANGED <<earVars, pureVars>>

\* main, lines 238-264: the positions of main() inside the inner try.
InnerTryAndListen == {"listen", "stream", "wait", "turn_done"}
InnerTry == {"stream", "wait", "turn_done"}

\* main, lines 238-267: KeyboardInterrupt inside the inner try (while the
\* response is streamed and enqueued, or in wait()); the handler calls
\* mouth.stop_talking().
MainInterrupt ==
    /\ mpc \in InnerTry
    /\ mpc' = "handler"
    /\ StopBegin("main")

\* stop_talking goes on in main's thread.
MainStopClear == mpc = "handler" /\ StopClear("main")

MainStopEnd == mpc = "handler" /\ StopEnd("main")

\* main, lines 268-269: the handler's print and its sleep of 0.5 s, then the
\* next turn.
MainCooldown ==
    /\ mpc = "cooldown"
    /\ mpc' = "listen"
    /\ UNCHANGED <<mouthVars, spc, nextJob, ncalls, nfaults, histVars>>
    /\ UNCHANGED <<earVars, pureVars>>

\* listen, lines 77-79, and main, lines 271-273: KeyboardInterrupt while
\* listen() captures (sys.exit(0)), or while the inner handler runs (the outer
\* handler breaks the loop): the process ends, and the daemon consumer thread
\* with it.
MainExit ==
    /\ mpc \in {"listen", "handler", "cooldown"}
    /\ mpc' = "exit"
    /\ sigMark' = nextJob - 1
    /\ UNCHANGED <<mouthVars, spc, nextJob, ncalls, nfaults>>
    /\ UNCHANGED <<doomed, target, cut, prevWritten, waitMark>>
    /\ UNCHANGED <<earVars, pureVars>>

Main ==
    \/ MainListen
    \/ MainSpeak
    \/ MainStreamEnd
    \/ MainWaitReturn
    \/ MainTurnDone
    \/ MainInterrupt
    \/ MainStopClear
    \/ MainStopEnd
    \/ MainCooldown
    \/ MainExit

Next == Worker \/ Main

\* The program: main()'s thread and the consumer thread.
Spec == Init /\ [][Next]_vars

\* A second thread calls stop_talking while main's thread runs its loop.
AuxStopBegin == Running /\ StopBegin("aux") /\ UNCHANGED mpc

AuxStopClear == Running /\ StopClear("aux")

AuxStopEnd == Running /\ StopEnd("aux")

Aux == AuxStopBegin \/ AuxStopClear \/ AuxStopEnd

\* JarvisMouth with stop_talking called from two threads.
SpecOverlap == Init /\ [][Next \/ Aux]_vars

\* The consumer thread is scheduled: whenever it can take a step it takes one.
LiveSpec == Spec /\ WF_vars(Worker)

\* ------------------------------------------------- JarvisEars.listen
\* The frames the input stream may deliver, as tuples of samples: silence, a
\* frame whose RMS is exactly THRESHOLD, and a frame above it.
FrameValues == {<<0, 0>>, <<3, -3>>, <<5, -3>>}

RECURSIVE SumSq(_)
SumSq(data) == IF data = << >> THEN 0 ELSE Head(data) * Head(data) + SumSq(Tail(data))

\* listen, lines 64 and 66: rms = sqrt(mean(data**2)) and rms > THRESHOLD; both
\* sides are not negative, so it is mean(data**2) > THRESHOLD**2.
LoudOrEqual(data) == SumSq(data) >= THRESHOLD * THRESHOLD * Len(data)
Loud(data) == SumSq(data) > THRESHOLD * THRESHOLD * Len(data)

\* listen, lines 66-71: silence_start after a frame taken at time t: cleared
\* by a loud frame, set by the first quiet frame once speaking.
SilenceAfterKept(ss, speaking, data, t) ==
    IF ~Loud(data) /\ speaking /\ ss = None THEN t ELSE ss
SilenceAfter(ss, speaking, data, t) ==
    IF Loud(data) THEN None
    ELSE IF speaking /\ ss = None THEN t
    ELSE ss

\* listen, lines 69-73: the quiet frame at which the loop breaks.
CutoffAtLimit(ss, speaking, data, t) ==
    ~Loud(data) /\ speaking /\ ss # None /\ t - ss >= SILENCE_LIMIT
Cutoff(ss, speaking, data, t) ==
    ~Loud(data) /\ speaking /\ ss # None /\ t - ss > SILENCE_LIMIT

\* listen, lines 75-76: every frame is appended once speaking has started.
AppendedIfLoud(buf, speaking, data) == IF Loud(data) THEN Append(buf, data) ELSE buf
Appended(buf, speaking, data) == IF speaking THEN Append(buf, data) ELSE buf

\* callback, lines 48-50: the audio subsystem delivers a frame; a status is
\* printed and the copy of the frame is put on q either way.
EarsCallback ==
    /\ epc = "loop"
    /\ Len(frames) < MaxFrames
    /\ \E data \in FrameValues, status \in BOOLEAN :
        /\ status => Cardinality(flagged) < MaxStatus
        /\ frames' = Append(frames, data)
        /\ flagged' = IF status THEN flagged \cup {Len(frames) + 1} ELSE flagged
    /\ UNCHANGED <<nread, now, audio_data, silence_start, speaking_started, epc, transcribed>>
    /\ UNCHANGED <<mouthVars, callerVars, histVars, pureVars>>

\* Time passes.
EarsTick ==
    /\ epc = "loop"
    /\ now < MaxTime
    /\ now' = now + 1
    /\ UNCHANGED <<frames, flagged, nread, audio_data, silence_start, speaking_started, epc, transcribed>>
    /\ UNCHANGED <<mouthVars, callerVars, histVars, pureVars>>

\* listen, lines 59-62: q.get times out on an empty q and the loop goes round.
EarsTimeout ==
    /\ epc = "loop"
    /\ nread = Len(frames)
    /\ UNCHANGED vars

\* listen, lines 60 and 64-76: the loop takes the oldest frame of q and
\* updates the capture state; it breaks on the cutoff, before the append.
EarsFrame ==
    /\ epc = "loop"
    /\ nread < Len(frames)
    /\ LET data == frames[nread + 1]
           speaking == speaking_started \/ Loud(data)
       IN  /\ nread' = nread + 1
           /\ speaking_started' = speaking
           /\ IF Cutoff(silence_start, speaking_started, data, now)
                THEN /\ epc' = "broke"
                     /\ UNCHANGED <<audio_data, silence_start>>
                ELSE /\ epc' = epc
                     /\ silence_start' = SilenceAfter(silence_start, speaking_started, data, now)
                     /\ audio_data' = Appended(audio_data, speaking, data)
    /\ flagged' = flagged \ {nread + 1}
    /\ UNCHANGED <<frames, now, transcribed>>
    /\ UNCHANGED <<mouthVars, callerVars, histVars, pureVars>>

\* listen, lines 81-88: past the loop, None is returned on an empty buffer,
\* else the frames are concatenated and handed to model.transcribe.
EarsFinish ==
    /\ epc = "broke"
    /\ transcribed' = IF audio_data = << >> THEN None ELSE audio_data
    /\ epc' = "returned"
    /\ UNCHANGED <<frames, flagged, nread, now, audio_data, silence_start, speaking_started>>
    /\ UNCHANGED <<mouthVars, callerVars, histVars, pureVars>>

EarsNext ==
    \/ EarsCallback
    \/ EarsTick
    \/ EarsTimeout
    \/ EarsFrame
    \/ EarsFinish

\* One call of listen(), with the audio callback and the clock.
SpecEars == Init /\ [][EarsNext]_vars

\* listen() runs in main's thread, which has nothing else to do: a frame
\* waiting on q is taken (the get of line 60 returns), and past the loop the
\* function runs to its return.
LiveEars == SpecEars /\ WF_vars(EarsFrame) /\ WF_vars(EarsFinish)

\* ------------------------------------------- main(): the response segmenter
\* Text is a sequence of characters. [.!?] of lines 254-255 and \s of lines
\* 142 and 255.
Terminals == {".", "!", "?"}
Whitespace == {" ", "\t", "\n"}

\* The characters of an unscripted response: a letter, two terminals, a blank.
Alphabet == {"a", ".", "?", " "}

\* The texts of at most n characters.
Texts(n) == UNION {[1..k -> Alphabet] : k \in 0..n}

\* Two fixed streams of deltas: "Hello.", " How are you", "? Fine." and the
\* single delta "Hi! Bye!".
HelloDeltas ==
    << <<"H", "e", "l", "l", "o", ".">>,
       <<" ", "H", "o", "w", " ", "a", "r", "e", " ", "y", "o", "u">>,
       <<"?", " ", "F", "i", "n", "e", ".">> >>
HiByeDeltas == << <<"H", "i", "!", " ", "B", "y", "e", "!">> >>
Scripts == {HelloDeltas, HiByeDeltas}

\* line 254: re.search(r'[.!?]', buffer).
ReSearch(buf) == \E k \in 1..Len(buf) : buf[k] \in Terminals

\* The first index from i on that holds no whitespace (Len(s) + 1: none).
RECURSIVE SkipWs(_, _)
SkipWs(s, i) == IF i <= Len(s) /\ s[i] \in Whitespace THEN SkipWs(s, i + 1) ELSE i

\* line 255: re.split(r'(?<=[.!?])\s+', buffer). A match begins at a whitespace
\* character that follows a terminal and takes the whole run; part is the
\* piece being collected, and the last piece is kept even when it is empty.
RECURSIVE SplitAt(_, _, _)
SplitAt(s, i, part) ==
    IF i > Len(s) THEN <<part>>
    ELSE IF i > 1 /\ s[i] \in Whitespace /\ s[i - 1] \in Terminals
         THEN <<part>> \o SplitAt(s, SkipWs(s, i), << >>)
         ELSE SplitAt(s, i + 1, Append(part, s[i]))

ReSplit(buf) == SplitAt(buf, 1, << >>)

\* lines 256-257: parts[:-1], the sentences handed to mouth.speak.
CompletedFirst(parts) == SubSeq(parts, 1, Min(1, Len(parts) - 1))
Completed(parts) == SubSeq(parts, 1, Len(parts) - 1)

\* line 258: buffer = parts[-1].
RemainderWhole(buf, parts) == buf
Remainder(buf, parts) == parts[Len(parts)]

\* _clean, line 140: re.sub(r'\*\*|__|\*', '', text) takes out every asterisk
\* and every pair of underscores.
RECURSIVE Unmarked(_)
Unmarked(t) ==
    IF t = << >> THEN << >>
    ELSE IF Head(t) = "*" THEN Unmarked(Tail(t))
    ELSE IF Len(t) >= 2 /\ t[1] = "_" /\ t[2] = "_" THEN Unmarked(Tail(Tail(t)))
    ELSE <<Head(t)>> \o Unmarked(Tail(t))

RECURSIVE DropWs(_)
DropWs(t) == IF t # << >> /\ Head(t) \in Whitespace THEN DropWs(Tail(t)) ELSE t

RECURSIVE DropWsEnd(_)
DropWsEnd(t) ==
    IF t # << >> /\ t[Len(t)] \in Whitespace THEN DropWsEnd(SubSeq(t, 1, Len(t) - 1)) ELSE t

\* _clean, line 142: re.sub(r'\s+', ' ', text) makes one blank of every run of
\* whitespace.
RECURSIVE Collapsed(_)
Collapsed(t) ==
    IF t = << >> THEN << >>
    ELSE IF Head(t) \in Whitespace THEN <<" ">> \o Collapsed(DropWs(t))
    ELSE <<Head(t)>> \o Collapsed(Tail(t))

\* _clean, lines 140-142, on text without a code fence (line 141 rewrites
\* ```...``` and no text here holds a backquote).
Clean(text) == DropWsEnd(DropWs(Collapsed(Unmarked(text))))

\* speak, lines 131-134: the cleaned text is put on the queue unless empty.
Speak(q, text) == LET cleaned == Clean(text) IN IF cleaned # << >> THEN Append(q, cleaned) ELSE q

RECURSIVE SpeakAll(_, _)
SpeakAll(q, sentences) ==
    IF sentences = << >> THEN q ELSE SpeakAll(Speak(q, Head(sentences)), Tail(sentences))

\* lines 239-248: ollama.chat returns the stream and buffer is empty. The
\* stream's deltas are scripted or free.
SegStart ==
    /\ segpc = "idle"
    /\ \E s \in Scripts \cup {<< >>} :
        /\ script' = s
        /\ free' = (s = << >>)
    /\ segpc' = "stream"
    /\ UNCHANGED <<fed, sbuf, units, queued, nstreamed, lastEmit>>
    /\ UNCHANGED <<mouthVars, callerVars, histVars, earVars, dspVars>>

\* lines 249-258: one delta is appended to buffer; if buffer holds a terminal
\* it is split, every part but the last is spoken and the last is kept.
SegDelta ==
    /\ segpc = "stream"
    /\ \E content \in (IF free THEN Texts(MaxText - Len(fed))
                       ELSE IF script # << >> THEN {Head(script)} ELSE {}) :
        LET buf == sbuf \o content
            parts == ReSplit(buf)
        IN  /\ fed' = fed \o content
            /\ IF ReSearch(buf)
                 THEN /\ units' = units \o Completed(parts)
                      /\ queued' = SpeakAll(queued, Completed(parts))
                      /\ sbuf' = Remainder(buf, parts)
                      /\ lastEmit' = Len(Completed(parts))
                 ELSE /\ sbuf' = buf
                      /\ lastEmit' = 0
                      /\ UNCHANGED <<units, queued>>
    /\ script' = IF free THEN script ELSE Tail(script)
    /\ UNCHANGED <<segpc, free, nstreamed>>
    /\ UNCHANGED <<mouthVars, callerVars, histVars, earVars, dspVars>>

\* lines 260-261: the stream has ended; what is left in buffer is spoken
\* unless it is empty.
SegEnd ==
    /\ segpc = "stream"
    /\ free \/ script = << >>
    /\ nstreamed' = Len(units)
    /\ IF sbuf # << >>
         THEN /\ units' = Append(units, sbuf)
              /\ queued' = Speak(queued, sbuf)
         ELSE UNCHANGED <<units, queued>>
    /\ segpc' = "done"
    /\ UNCHANGED <<script, free, fed, sbuf, lastEmit>>
    /\ UNCHANGED <<mouthVars, callerVars, histVars, earVars, dspVars>>

SegNext == SegStart \/ SegDelta \/ SegEnd

\* The segmenter of one chat response.
SpecSeg == Init /\ [][SegNext]_vars

\* --------------------------------- _play_chunked: conversion and volume
\* The sample values followed: the ends of np.int16, zero and its neighbours.
Int16Samples == {Int16Min, -1, 0, 1, Int16Max}

\* The master volumes, 0.0 to 1.0.
Volumes == 0..VolumeUnit

\* line 176: audio_int16.astype(np.float32) / 32768.0, as an exact fraction
\* (every int16 over 2^15 is a float32).
ToFloatBy32767(x) == [num |-> x, den |-> Int16Max]
ToFloat(x) == [num |-> x, den |-> FullScale]

\* line 177: audio_float32 * Config.VOLUME, exactly (float32 rounds the
\* product to the nearest value, which keeps it between the same bounds).
Scaled(y, v) == [num |-> y.num * v, den |-> y.den * VolumeUnit]

\* lines 164-175: synthesis has produced a buffer of int16 samples, shorter
\* than one sub-chunk; the master volume is any value of its range.
DspSynth ==
    /\ dpc = "idle"
    /\ \E n \in 1..MaxSamples : audio_int16' \in [1..n -> Int16Samples]
    /\ volume' \in Volumes
    /\ dpc' = "int16"
    /\ UNCHANGED <<audio_float32, device>>
    /\ UNCHANGED <<mouthVars, callerVars, histVars, earVars, segVars>>

\* line 176.
DspConvert ==
    /\ dpc = "int16"
    /\ audio_float32' = [k \in 1..Len(audio_int16) |-> ToFloat(audio_int16[k])]
    /\ dpc' = "float32"
    /\ UNCHANGED <<volume, audio_int16, device>>
    /\ UNCHANGED <<mouthVars, callerVars, histVars, earVars, segVars>>

\* line 177.
DspVolume ==
    /\ dpc = "float32"
    /\ audio_float32' = [k \in 1..Len(audio_float32) |-> Scaled(audio_float32[k], volume)]
    /\ dpc' = "scaled"
    /\ UNCHANGED <<volume, audio_int16, device>>
    /\ UNCHANGED <<mouthVars, callerVars, histVars, earVars, segVars>>

\* lines 182-192, for a buffer shorter than CHUNK_SIZE: the one chunk is the
\* whole buffer, padded with zeros, and is written.
DspWrite ==
    /\ dpc = "scaled"
    /\ device' = [data |-> audio_float32, zeros |-> Pad(Len(audio_float32))]
    /\ dpc' = "written"
    /\ UNCHANGED <<volume, audio_int16, audio_float32>>
    /\ UNCHANGED <<mouthVars, callerVars, histVars, earVars, segVars>>

DspNext == DspSynth \/ DspConvert \/ DspVolume \/ DspWrite

\* The samples of one buffer, from synthesis to the device.
SpecDsp == Init /\ [][DspNext]_vars

\* ============================================================ properties

\* The offsets of the sub-chunks of a buffer of len samples: range(0, len,
\* CHUNK_SIZE).
Offsets(len) ==
    {k * CHUNK_SIZE : k \in 0..(((len + CHUNK_SIZE - 1) \div CHUNK_SIZE) - 1)}

\* The consumer has handed job j to piper.synthesize.
Handed(j) ==
    /\ cur = j
    /\ \/ wpc \in {"collect", "loop", "write"}
       \/ outcome \in {"aborted", "empty", "played", "fault"}

\* The consumer has come to the end of job j's buffer and the device has
\* received every sub-chunk of it.
FullyPlayed(j) ==
    /\ cur = j
    /\ outcome \in {"played", "empty"}
    /\ \A off \in Offsets(alen) : SubChunk(j, off, alen) \in Range(written)

\* Job a has been processed to its end, or removed from the queue.
Finished(a) == a < nextJob /\ a \notin Range(jobq) /\ cur # a

\* C1: once a stop_talking that began while the consumer was in the write loop
\* of a buffer has returned, the device has received no sub-chunk of that
\* buffer beyond the one whose write was done or in progress when active was
\* set to False.
C1_NoWriteAfterInterrupt ==
    \A c \in cut : \A k \in 1..Len(written) :
        written[k].job = c.job => written[k].off <= c.last

\* C2: a job that was enqueued and not yet begun when stop_talking was called
\* (in the queue, or popped and not yet tested) is never handed to
\* piper.synthesize.
C2_PendingNeverSynthesized == \A j \in doomed : ~Handed(j)

\* C3: when wait() has returned, the queue is empty and the consumer holds no
\* job.
C3_WaitReturnsDrained ==
    mpc = "turn_done" => (jobq = << >> /\ wpc = "get" /\ cur = NoJob)

C3_Witness == mpc = "turn_done" /\ prevWritten = MaxJobs /\ ncalls > 0

\* C4: a wait() that finds the queue empty and the consumer idle can return.
C4_WaitReturnsWhenIdle ==
    (mpc = "wait" /\ jobq = << >> /\ wpc = "get") => JoinReady

\* C5: a job put on the queue after a wait() has returned, with piper loaded,
\* no interrupt signal after the enqueue and no fault in its playback, is
\* eventually played in full: the consumer comes to the end of its buffer with
\* every sub-chunk written to the device.
C5_EnqueuedAfterWaitIsPlayed ==
    \A j \in Jobs :
        (j \in Range(jobq) /\ piper /\ waitMark # 0 /\ j >= waitMark)
            ~> (FullyPlayed(j) \/ j <= sigMark \/ (cur = j /\ outcome = "fault"))

C5_Witness ==
    /\ waitMark # 0
    /\ cur >= waitMark
    /\ cur > sigMark
    /\ FullyPlayed(cur)
    /\ Len(written) > 1

\* C6: when every call of stop_talking has returned, after one call or after
\* two, the engine is active and the queue holds no job that was there when a
\* call began.
C6_InterruptIdempotent ==
    (ncalls >= 1 /\ \A t \in Callers : spc[t] = "idle")
        => (active /\ Range(jobq) \cap doomed = {})

C6_Witness ==
    /\ ncalls = 2
    /\ \A t \in Callers : spc[t] = "idle"
    /\ unfinished > Len(jobq) + (IF cur = NoJob THEN 0 ELSE 1)
    /\ jobq # << >>

\* C7: jobs are processed in enqueue order: the consumer holds job b only when
\* every job enqueued before it is finished, and the device receives the
\* writes of a job only after those of the jobs enqueued before it.
C7_PlayedInEnqueueOrder ==
    /\ \A a, b \in Jobs : (a < b /\ cur = b) => Finished(a)
    /\ written # << >> => prevWritten < cur

C7_Witness ==
    /\ ncalls >= 1
    /\ written # << >>
    /\ prevWritten # NoJob

\* A frame's RMS energy exceeds THRESHOLD: its mean square exceeds the square
\* of THRESHOLD.
AboveThreshold(data) == SumSq(data) > THRESHOLD * THRESHOLD * Len(data)

\* The first loud frame among those taken (0: none).
FirstLoud ==
    IF \E k \in 1..nread : AboveThreshold(frames[k])
      THEN CHOOSE k \in 1..nread : AboveThreshold(frames[k]) /\ \A m \in 1..(k - 1) : ~AboveThreshold(frames[m])
      ELSE 0

\* C8: as long as no frame's RMS has exceeded THRESHOLD, no frame is in the
\* utterance buffer, listen() has not left its loop and nothing was handed to
\* transcription.
C8_QuietInputCapturesNothing ==
    (\A k \in 1..Len(frames) : ~AboveThreshold(frames[k]))
        => (audio_data = << >> /\ epc = "loop" /\ transcribed = None)

C8_Witness ==
    /\ nread = MaxFrames
    /\ now = MaxTime
    /\ \A k \in 1..Len(frames) : ~AboveThreshold(frames[k])
    /\ \E k \in 1..Len(frames) : SumSq(frames[k]) = THRESHOLD * THRESHOLD * Len(frames[k])

\* C9: once the loop has broken at the silence cutoff, the utterance is the
\* frames from the first loud one up to the one before the cutoff frame, in
\* arrival order, and that is what transcription is given.
C9_UtteranceIsFirstLoudToCutoff ==
    epc \in {"broke", "returned"}
        => /\ FirstLoud # 0
           /\ ~AboveThreshold(frames[nread])
           /\ audio_data = SubSeq(frames, FirstLoud, nread - 1)
           /\ epc = "returned" => transcribed = audio_data

C9_Witness ==
    /\ epc = "returned"
    /\ FirstLoud > 1
    /\ Len(audio_data) > 1
    /\ Len(frames) > nread

\* C10: after every frame, silence_start is set only if speaking has started
\* and the frame was not loud; after a loud frame silence_start is None and
\* speaking has started.
C10_SilenceStartInvariant ==
    nread >= 1
        => /\ silence_start # None => (speaking_started /\ ~AboveThreshold(frames[nread]))
           /\ AboveThreshold(frames[nread]) => (silence_start = None /\ speaking_started)

C10_Witness ==
    /\ nread >= 3
    /\ AboveThreshold(frames[nread])
    /\ ~AboveThreshold(frames[nread - 1])
    /\ AboveThreshold(frames[nread - 2])
    /\ now > 0

\* The concatenation of a sequence of texts.
RECURSIVE Flat(_)
Flat(ts) == IF ts = << >> THEN << >> ELSE Head(ts) \o Flat(Tail(ts))

\* t without the whitespace runs that follow a terminal; drop says the
\* previous character was a terminal or dropped whitespace.
RECURSIVE SqueezeFrom(_, _)
SqueezeFrom(t, drop) ==
    IF t = << >> THEN << >>
    ELSE IF drop /\ Head(t) \in Whitespace THEN SqueezeFrom(Tail(t), TRUE)
    ELSE <<Head(t)>> \o SqueezeFrom(Tail(t), Head(t) \in Terminals)

Squeeze(t) == SqueezeFrom(t, FALSE)

\* The text handed to speak so far, with what is still held in buffer.
Emitted == IF segpc = "done" THEN Flat(units) ELSE Flat(units) \o sbuf

Hello == <<"H", "e", "l", "l", "o", ".">>
HowAreYou == <<"H", "o", "w", " ", "a", "r", "e", " ", "y", "o", "u", "?">>
Fine == <<"F", "i", "n", "e", ".">>

HelloExample ==
    (segpc = "done" /\ fed = Flat(HelloDeltas))
        => (units = <<Hello, HowAreYou, Fine>> /\ nstreamed = 2)

\* C11 as stated: at the end of the stream no unit is empty and the units
\* concatenated are the deltas concatenated without the whitespace runs that
\* follow a terminal; "Hello.", " How are you", "? Fine." give three units,
\* the first two before the end of the stream.
C11_UnitsAreTextWithoutBoundaryRuns ==
    /\ \A k \in 1..Len(units) : units[k] # << >>
    /\ segpc = "done" => Flat(units) = Squeeze(fed)
    /\ HelloExample

\* C11, amended: no unit handed to speak and no text put on the queue is
\* empty; every unit completed before the end of the stream ends in a
\* terminal; the units (with the held remainder) are the deltas in order
\* except for whitespace that follows a terminal, of which some is removed
\* and never more than was fed; "Hello.", " How are you", "? Fine." give the
\* three units "Hello.", "How are you?", "Fine.", two of them before the end.
C11_UnitsAreTextUpToBoundaryRuns ==
    /\ \A k \in 1..Len(units) : units[k] # << >>
    /\ \A k \in 1..Len(queued) : queued[k] # << >>
    /\ \A k \in 1..(IF segpc = "done" THEN nstreamed ELSE Len(units)) :
           units[k][Len(units[k])] \in Terminals
    /\ Squeeze(Emitted) = Squeeze(fed)
    /\ Len(Emitted) <= Len(fed)
    /\ HelloExample

C11_Witness ==
    segpc = "done" /\ fed = Flat(HelloDeltas) /\ Len(units) = 3 /\ nstreamed = 2

\* The boundaries of a text: the terminals that are followed by whitespace.
Boundaries(t) ==
    Cardinality({k \in 1..(Len(t) - 1) : t[k] \in Terminals /\ t[k + 1] \in Whitespace})

\* C12: a delta that leaves k boundaries in the buffer has k sentences handed
\* to speak and put on the queue while it is processed, and the buffer becomes
\* the remainder, which holds no boundary; the single delta "Hi! Bye!" gives
\* the two units "Hi!" and "Bye!".
C12_EveryBoundarySplitsInOnePass ==
    /\ [][(segpc = "stream" /\ segpc' = "stream") =>
            LET buf == sbuf \o SubSeq(fed', Len(fed) + 1, Len(fed'))
                k == Boundaries(buf)
            IN  /\ Len(units') = Len(units) + k
                /\ Len(queued') = Len(queued) + k
                /\ \A n \in (Len(units) + 1)..Len(units') :
                       units'[n][Len(units'[n])] \in Terminals
                /\ Boundaries(sbuf') = 0
                /\ Len(sbuf') <= Len(buf)
                /\ sbuf' = SubSeq(buf, Len(buf) - Len(sbuf') + 1, Len(buf))]_vars
    /\ []((segpc = "done" /\ fed = Flat(HiByeDeltas))
            => units = << <<"H", "i", "!">>, <<"B", "y", "e", "!">> >>)

C12_Witness == segpc = "stream" /\ lastEmit >= 2

\* C13: a frame that was delivered with a status is skipped by the capture
\* loop: taking it from q appends nothing to the utterance buffer, leaves
\* speaking_started and silence_start as they were, and the loop goes on.
C13_FlaggedFrameSkipped ==
    [][(epc = "loop" /\ nread' = nread + 1 /\ (nread + 1) \in flagged)
         => /\ audio_data' = audio_data
            /\ speaking_started' = speaking_started
            /\ silence_start' = silence_start
            /\ epc' = "loop"]_vars

\* C14: a fault raised while a job is synthesized, converted or written is
\* caught inside _play_chunked: the consumer is then at task_done with the job
\* still counted, its next step counts the job as finished and takes it back
\* to the top of its loop with the queue untouched, and as long as the process
\* runs the consumer has a step to take.
C14_FaultLeavesConsumerRunning ==
    /\ [](outcome = "fault" => (wpc = "task_done" /\ cur \in Jobs /\ unfinished > 0))
    /\ [][(outcome = "fault" /\ wpc' # wpc)
            => (wpc' = "get" /\ unfinished' = unfinished - 1 /\ jobq' = jobq)]_vars
    /\ [](Running => ENABLED Worker)

\* A job is played in full after an earlier job's playback raised.
C14_Witness == nfaults > 0 /\ cur \in Jobs /\ outcome = "played"

\* C15: with no synthesis collaborator nothing is synthesized or written to
\* the device, a popped job is printed or (engine not active) let go, and the
\* turn completes: once main waits with every job handled (the queue empty,
\* the consumer idle) wait() can return.
C15_FallbackTurnCompletes ==
    ~piper =>
        /\ written = << >>
        /\ outcome \in {"none", "printed", "skipped"}
        /\ (mpc = "wait" /\ jobq = << >> /\ wpc = "get") => JoinReady

\* C16: every sample written to the device is the int16 sample over 32768
\* times the volume (the fraction num / den with den = 32768 * VolumeUnit and
\* num = sample * volume, volume in 0..VolumeUnit), and lies in [-1, 1].
C16_ScaledLinearAndInRange ==
    dpc = "written" =>
        /\ Len(device.data) = Len(audio_int16)
        /\ \A k \in 1..Len(device.data) :
            LET y == device.data[k]
            IN  /\ y.den = FullScale * VolumeUnit
                /\ y.num = audio_int16[k] * volume
                /\ -y.den <= y.num /\ y.num <= y.den

\* The most negative sample at full volume is written as -1.
C16_Witness ==
    /\ dpc = "written"
    /\ volume = VolumeUnit
    /\ \E k \in 1..Len(device.data) :
        audio_int16[k] = Int16Min /\ device.data[k].num = -device.data[k].den

\* C18: every write has exactly CHUNK_SIZE samples, of which the first real
\* ones are the buffer's samples from the write's offset on and the rest are
\* padding; the offsets are 0, CHUNK_SIZE, 2 * CHUNK_SIZE, ... in order; and a
\* playback that ran to its end made ceil(len / CHUNK_SIZE) writes.
C18_WritesAreFullChunks ==
    /\ \A k \in 1..Len(written) :
        /\ written[k].size = CHUNK_SIZE
        /\ written[k].off = (k - 1) * CHUNK_SIZE
        /\ written[k].real = Min(CHUNK_SIZE, alen - written[k].off)
        /\ written[k].real > 0
    /\ outcome = "played" =>
        /\ Len(written) * CHUNK_SIZE >= alen
        /\ (Len(written) - 1) * CHUNK_SIZE < alen

\* A buffer of CHUNK_SIZE + 1 samples was played to its end in two writes,
\* the second one padded.
C18_Witness ==
    /\ outcome = "played"
    /\ alen = CHUNK_SIZE + 1
    /\ Len(written) = 2
    /\ written[2].real = 1

\* C17: a job enqueued after every stop_talking so far has cleared the queue
\* (during the sleep of one, or after its return) is not lost: the consumer
\* does not let it go unspoken, print it in place of speaking it, or break
\* its playback off.
C17_EnqueuedAfterClearNotLost ==
    \A j \in Jobs :
        (/\ cur = j
         /\ piper
         /\ ncalls > 0
         /\ j > sigMark
         /\ \A t \in Callers : spc[t] # "clear")
            => outcome \notin {"skipped", "printed", "aborted"}

\* C19: the loop breaks only at a quiet frame taken while speaking with more
\* than SILENCE_LIMIT passed since silence_start; a frame above THRESHOLD
\* clears silence_start and does not end the loop; and when, while speaking,
\* a quiet frame waits on q with more than SILENCE_LIMIT passed since
\* silence_start, listen() leaves its loop and hands the utterance to
\* transcription.
C19_SilenceEndsCapture ==
    /\ [][(epc = "loop" /\ epc' # "loop")
            => /\ speaking_started
               /\ silence_start # None
               /\ now - silence_start > SILENCE_LIMIT
               /\ nread < Len(frames)
               /\ ~AboveThreshold(frames[nread + 1])]_vars
    /\ [][(epc = "loop" /\ nread' = nread + 1 /\ AboveThreshold(frames[nread + 1]))
            => (silence_start' = None /\ epc' = "loop")]_vars
    /\ (/\ epc = "loop"
        /\ speaking_started
        /\ silence_start # None
        /\ now - silence_start > SILENCE_LIMIT
        /\ nread < Len(frames)
        /\ ~AboveThreshold(frames[nread + 1]))
           ~> (epc = "returned" /\ audio_data # << >> /\ transcribed = audio_data)

\* listen() has returned after a silence longer than SILENCE_LIMIT that began
\* more than once (a loud frame had cleared the first silence_start).
C19_Witness ==
    /\ epc = "returned"
    /\ audio_data # << >>
    /\ transcribed = audio_data
    /\ now - silence_start > SILENCE_LIMIT
    /\ \E k \in 2..Len(audio_data) :
        ~AboveThreshold(audio_data[k - 1]) /\ AboveThreshold(audio_data[k])

\* C20: main() leaves "listen" only by listen() returning or by the end of
\* the process, never into the interrupt handler; the handler is entered only
\* from streaming, enqueueing or waiting, and entering it begins
\* stop_talking (active is False); the process ends only from listen() or by
\* a further signal inside the handler, and stays ended; jobs are enqueued
\* only while streaming, so none is after the signal; and from the handler
\* main goes on, stop_talking done, to the next listen().
C20_InterruptByPhase ==
    /\ [][mpc = "listen" => mpc' \in {"listen", "stream", "exit"}]_vars
    /\ [][(mpc' = "handler" /\ mpc # "handler")
            => /\ mpc \in {"stream", "wait", "turn_done"}
               /\ ~active'
               /\ spc'["main"] = "clear"
               /\ ncalls' = ncalls + 1]_vars
    /\ [][(mpc' = "exit" /\ mpc # "exit") => mpc \in {"listen", "handler", "cooldown"}]_vars
    /\ [][mpc = "exit" => mpc' = "exit"]_vars
    /\ [][nextJob' # nextJob => (mpc = "stream" /\ mpc' = "stream")]_vars
    /\ [][mpc = "handler" => mpc' \in {"handler", "cooldown", "exit"}]_vars
    /\ [][mpc = "cooldown" => mpc' \in {"cooldown", "listen", "exit"}]_vars
    /\ [](mpc = "cooldown" => (spc["main"] = "idle" /\ jobq = << >>))

\* After an interrupt during a turn that had enqueued a job, main() is back
\* in listen().
C20_Witness ==
    /\ mpc = "listen"
    /\ ncalls > 0
    /\ nextJob > 1
    /\ sigMark = nextJob - 1
    /\ spc["main"] = "idle"

====
